---- MODULE Spec2Model ----
(***************************************************************************)
(* The "Aditi" (Nifty Shop) positional strategy: one decision cycle is     *)
(* execute_strategy = sell pass, screening, buy / averaging pass, run      *)
(* against the shared trade ledger TradeManager.trades.                    *)
(*                                                                         *)
(* Prices are integers.  Percentages (pnl_pct, ChangePct, target_pct,      *)
(* averaging_pct) are integers in hundredths of a percent, the two         *)
(* decimals the code rounds them to.  Weighted entry prices and 20DMA      *)
(* values are kept as exact fractions (numerator, denominator).            *)
(***************************************************************************)
EXTENDS Integers, Sequences, FiniteSets

VARIABLES
    trades,      \* TradeManager.trades: the ledger, in creation order
    cfg,         \* max_buys_per_day, max_sells_per_day, max_averaging_per_stock
    clock,       \* the trading day, used as createTimestamp of new trades
    pc,          \* position inside execute_strategy
    cmp,         \* the quote provider's answers of the day: symbol -> price or NoQuote
    symbols,     \* self.symbols, the universe
    hist,        \* the historical data fetched by the screening of this cycle
    stock_list,  \* result of get_eligible_stocks_for_today
    opening,     \* the ledger as the sell pass of this cycle found it
    at_buy,      \* the ledger as the buy pass of this cycle found it
    positions,   \* the aggregate the sell pass computed per symbol it valued
    sold,        \* symbols the sell pass of this cycle selected, in order
    bought,      \* symbols Step 1 of this cycle bought as new positions, in order
    averaged,    \* symbols Step 2 of this cycle bought for averaging
    response,    \* what the index API answered to the screener app
    universe     \* what get_nifty50_symbols returned to the screener app

vars == <<trades, cfg, clock, pc, cmp, symbols, hist, stock_list,
          opening, at_buy, positions, sold, bought, averaged,
          response, universe>>

----------------------------------------------------------------------------
(* Bounds of the model *)

MaxDays == 2

(* Values of the model *)

None == "None"
NoQuote == 0 - 1   \* get_cmp answering None
NaN == 0 - 1       \* a moving average that is not a number
Name == "Aditi"
Symbols == {"A", "B"}
Prices == {90, 100, 106, 108}

(* the strategy makes no request to the index API and holds no app universe *)
NoResponse == [kind |-> "not requested", status |-> 0, text |-> "", items |-> <<>>]
NoUniverse == [value |-> "unset", list |-> <<>>]

(* Strategy properties *)

investment_first_buy == 15000
investment_averaging == 7500
target_pct == 500
averaging_pct == 0 - 500
TopK == 5
Window == 20

Min(a, b) == IF a < b THEN a ELSE b

Range(s) == {s[i] : i \in DOMAIN s}

RECURSIVE SumOver(_, _)
SumOver(f, S) ==
    IF S = {} THEN 0
    ELSE LET i == CHOOSE x \in S : TRUE IN f[i] + SumOver(f, S \ {i})

(* round(num / den * 100, 2): a percentage, in hundredths of a percent *)
Round2(num, den) == (2 * 10000 * num + den) \div (2 * den)

(* Utils.round_off_price of the percentage num / den * 100 *)
round_off_price(num, den) == (2 * 10000 * num + den) \div (2 * den)

----------------------------------------------------------------------------
(* Trades *)

NewTrade(sym, strat, px, qty, ts) ==
    [tradingSymbol   |-> sym,
     strategy        |-> strat,
     tradeState      |-> "active",
     direction       |-> "LONG",
     entry           |-> px,
     filledQty       |-> qty,
     createTimestamp |-> ts,
     targetOrder     |-> None,
     entryOrder      |-> [orderStatus |-> IF qty > 0 THEN "COMPLETE" ELSE "OPEN",
                          filledQty   |-> qty]]

(* TradeManager.square_off_trade: the trade is exited and no longer active *)
square_off_trade(tr, i) == [tr EXCEPT ![i].tradeState = "closed"]

(* place_new_trade: a new active long trade of this strategy enters the ledger,
   filled at px for the quantity the investment buys *)
place_new_trade(tr, sym, px, investment, ts) ==
    Append(tr, NewTrade(sym, Name, px, investment \div px, ts))

----------------------------------------------------------------------------
(* initiate_sell *)

IsOpenPosition_ignoring_target(t) ==
    /\ t.strategy = Name
    /\ t.tradeState = "active"
    /\ t.entryOrder.orderStatus = "COMPLETE"
    /\ t.entryOrder.filledQty > 0

IsOpenPosition(t) ==
    /\ t.strategy = Name
    /\ t.tradeState = "active"
    /\ t.targetOrder = None
    /\ t.entryOrder.orderStatus = "COMPLETE"
    /\ t.entryOrder.filledQty > 0

KeyIndex(acc, s) ==
    IF \E k \in DOMAIN acc : acc[k].symbol = s
    THEN CHOOSE k \in DOMAIN acc : acc[k].symbol = s
    ELSE 0

(* {symbol: [list of active trades]}, keys in insertion order, trades by index *)
RECURSIVE SymbolTradesFrom(_, _, _)
SymbolTradesFrom(tr, i, acc) ==
    IF i > Len(tr) THEN acc
    ELSE IF ~IsOpenPosition(tr[i]) THEN SymbolTradesFrom(tr, i + 1, acc)
    ELSE LET s == tr[i].tradingSymbol
             k == KeyIndex(acc, s)
         IN  IF k = 0
             THEN SymbolTradesFrom(tr, i + 1,
                      Append(acc, [symbol |-> s, trades |-> <<i>>]))
             ELSE SymbolTradesFrom(tr, i + 1,
                      [acc EXCEPT ![k].trades = Append(@, i)])

symbol_trades(tr) == SymbolTradesFrom(tr, 1, <<>>)

total_qty(tr, idx) == SumOver([i \in Range(idx) |-> tr[i].filledQty], Range(idx))

(* weighted_entry = entry_value / total_qty, kept as the fraction *)
entry_value(tr, idx) ==
    SumOver([i \in Range(idx) |-> tr[i].entry * tr[i].filledQty], Range(idx))

(* unrealised_pnl * 100 / (total_qty * weighted_entry), rounded *)
pnl_pct(tr, idx, price) ==
    round_off_price(price * total_qty(tr, idx) - entry_value(tr, idx),
                  entry_value(tr, idx))

RECURSIVE CandidatesFrom(_, _, _, _)
CandidatesFrom(tr, q, st, k) ==
    IF k > Len(st) THEN <<>>
    ELSE LET rest == CandidatesFrom(tr, q, st, k + 1)
             e == st[k]
         IN  IF total_qty(tr, e.trades) = 0 THEN rest
             ELSE IF q[e.symbol] = NoQuote THEN rest
             ELSE LET p == pnl_pct(tr, e.trades, q[e.symbol])
                  IN  IF p >= target_pct
                      THEN <<[symbol |-> e.symbol, pnl_pct |-> p,
                              trades |-> e.trades]>> \o rest
                      ELSE rest

(* the locals of the candidate loop, per symbol that has a quote *)
Positions(tr, q) ==
    LET st == symbol_trades(tr)
        valued == {k \in DOMAIN st :
                      total_qty(tr, st[k].trades) # 0 /\ q[st[k].symbol] # NoQuote}
    IN  [s \in {st[k].symbol : k \in valued} |->
            LET idx == st[KeyIndex(st, s)].trades
            IN  [total_qty   |-> total_qty(tr, idx),
                 entry_value |-> entry_value(tr, idx),
                 pnl_pct     |-> pnl_pct(tr, idx, q[s])]]

candidates(tr, q) == CandidatesFrom(tr, q, symbol_trades(tr), 1)

(* list.sort(key = pnl_pct, reverse = True): stable, highest first *)
RECURSIVE InsertDesc(_, _)
InsertDesc(c, s) ==
    IF s = <<>> THEN <<c>>
    ELSE IF Head(s).pnl_pct >= c.pnl_pct THEN <<Head(s)>> \o InsertDesc(c, Tail(s))
    ELSE <<c>> \o s

RECURSIVE SortDesc(_)
SortDesc(s) ==
    IF s = <<>> THEN <<>>
    ELSE InsertDesc(s[Len(s)], SortDesc(SubSeq(s, 1, Len(s) - 1)))

to_sell_unsorted(tr, q, maxSells) ==
    LET c == candidates(tr, q)
    IN  SubSeq(c, 1, Min(maxSells, Len(c)))

to_sell(tr, q, maxSells) ==
    LET c == SortDesc(candidates(tr, q))
    IN  SubSeq(c, 1, Min(maxSells, Len(c)))

SquareOffFirst(tr, idx) ==
    IF idx = <<>> THEN tr ELSE square_off_trade(tr, Head(idx))

RECURSIVE SquareOffAll(_, _)
SquareOffAll(tr, idx) ==
    IF idx = <<>> THEN tr
    ELSE SquareOffAll(square_off_trade(tr, Head(idx)), Tail(idx))

RECURSIVE SellAll(_, _)
SellAll(tr, ts) ==
    IF ts = <<>> THEN tr
    ELSE SellAll(SquareOffAll(tr, Head(ts).trades), Tail(ts))

initiate_sell(tr, q, maxSells) ==
    LET ts == to_sell(tr, q, maxSells)
    IN  [trades |-> SellAll(tr, ts),
         sold   |-> [k \in DOMAIN ts |-> ts[k].symbol]]

----------------------------------------------------------------------------
(* get_eligible_stocks_for_today *)

Row(d, c) == [date |-> d, close |-> c]

(* df.sort_index(): rows by ascending date *)
RECURSIVE InsertByDate(_, _)
InsertByDate(r, s) ==
    IF s = <<>> THEN <<r>>
    ELSE IF Head(s).date <= r.date THEN <<Head(s)>> \o InsertByDate(r, Tail(s))
    ELSE <<r>> \o s

RECURSIVE sort_index(_)
sort_index(df) ==
    IF df = <<>> THEN <<>>
    ELSE InsertByDate(df[Len(df)], sort_index(SubSeq(df, 1, Len(df) - 1)))

(* df['Close'].rolling(window=20).mean().iloc[-1], as the sum of the window *)
latest_dma_sum(df) ==
    IF Len(df) < Window THEN NaN
    ELSE SumOver([i \in (Len(df) - Window + 1)..Len(df) |-> df[i].close],
                 (Len(df) - Window + 1)..Len(df))

(* One symbol of the loop: <<>> when skipped, else <<(symbol, deviation)>>;
   deviation = (latest_close - latest_dma) / latest_dma * 100 = num / den * 100 *)
ScreenSymbol(symbol, data) ==
    IF data.fetch = "error" THEN <<>>
    ELSE IF data.fetch = "none" \/ data.rows = <<>> THEN <<>>
    ELSE LET df == sort_index(data.rows)
             latest_close == df[Len(df)].close
             dma == latest_dma_sum(df)
         IN  IF dma = NaN THEN <<>>
             ELSE IF latest_close * Window < dma
                  THEN <<[symbol |-> symbol,
                          num |-> latest_close * Window - dma, den |-> dma]>>
                  ELSE <<>>

(* a loop that a raised fetch ends *)
RECURSIVE ScreenLoop_fail_fast(_, _, _)
ScreenLoop_fail_fast(syms, h, k) ==
    IF k > Len(syms) THEN <<>>
    ELSE IF h[syms[k]].fetch = "error" THEN <<>>
    ELSE ScreenSymbol(syms[k], h[syms[k]]) \o ScreenLoop_fail_fast(syms, h, k + 1)

RECURSIVE ScreenLoop(_, _, _)
ScreenLoop(syms, h, k) ==
    IF k > Len(syms) THEN <<>>
    ELSE ScreenSymbol(syms[k], h[syms[k]]) \o ScreenLoop(syms, h, k + 1)

DevLess(a, b) == a.num * b.den < b.num * a.den

(* sorted(results, key = deviation): stable, ascending *)
RECURSIVE InsertAsc(_, _)
InsertAsc(r, s) ==
    IF s = <<>> THEN <<r>>
    ELSE IF ~DevLess(r, Head(s)) THEN <<Head(s)>> \o InsertAsc(r, Tail(s))
    ELSE <<r>> \o s

SortAsc_none(s) == s

RECURSIVE SortAsc(_)
SortAsc(s) ==
    IF s = <<>> THEN <<>>
    ELSE InsertAsc(s[Len(s)], SortAsc(SubSeq(s, 1, Len(s) - 1)))

get_eligible_stocks_for_today(syms, h) ==
    IF Len(syms) = 0 THEN <<>>
    ELSE LET r == SortAsc(ScreenLoop(syms, h, 1))
             top == SubSeq(r, 1, Min(TopK, Len(r)))
         IN  [k \in DOMAIN top |-> top[k].symbol]

----------------------------------------------------------------------------
(* initiate_buy *)

already_held_any_strategy(tr, stock) ==
    \E i \in DOMAIN tr :
        /\ tr[i].tradeState = "active"
        /\ tr[i].tradingSymbol = stock

already_held(tr, stock) ==
    \E i \in DOMAIN tr :
        /\ tr[i].strategy = Name
        /\ tr[i].tradeState = "active"
        /\ tr[i].tradingSymbol = stock

(* The price an entry order fills at: the quote of the day when there is one *)
FillPrice(q, stock, px) == IF q[stock] = NoQuote THEN px ELSE q[stock]

(* Step 1: the loop over stock_list; pxs are the fill prices of the orders
   placed where the day has no quote *)
RECURSIVE BuyLoop(_, _, _, _, _, _, _, _)
BuyLoop(tr, list, k, q, pxs, now, maxBuys, new) ==
    IF k > Len(list) THEN [trades |-> tr, bought |-> new]
    ELSE IF ~already_held(tr, list[k]) /\ Len(new) < maxBuys
         THEN BuyLoop(place_new_trade(tr, list[k],
                          FillPrice(q, list[k], pxs[list[k]]),
                          investment_first_buy, now),
                      list, k + 1, q, pxs, now, maxBuys,
                      Append(new, list[k]))
         ELSE BuyLoop(tr, list, k + 1, q, pxs, now, maxBuys, new)

(* _current_averaging_count *)
current_averaging_count(tr, symbol) ==
    Cardinality({i \in DOMAIN tr :
        /\ tr[i].strategy = Name
        /\ tr[i].tradingSymbol = symbol
        /\ tr[i].direction = "LONG"
        /\ tr[i].entryOrder.orderStatus = "COMPLETE"
        /\ tr[i].entryOrder.filledQty > 0})

Rows_any_state(tr) ==
    {i \in DOMAIN tr :
        /\ tr[i].strategy = Name
        /\ tr[i].targetOrder = None
        /\ tr[i].entryOrder.orderStatus = "COMPLETE"
        /\ tr[i].entryOrder.filledQty > 0}

(* rows of the frame: the trades consolidated for averaging, by index *)
Rows(tr) == {i \in DOMAIN tr : IsOpenPosition(tr[i])}

(* df.groupby('Symbol')['Date'].idxmax(): per symbol the first row of the
   latest Date *)
LatestRow(tr, symbol) ==
    LET mine == {i \in Rows(tr) : tr[i].tradingSymbol = symbol}
        top == {i \in mine : \A j \in mine :
                    tr[j].createTimestamp <= tr[i].createTimestamp}
    IN  CHOOSE i \in top : \A j \in top : i <= j

RowSymbols(tr) == {tr[i].tradingSymbol : i \in Rows(tr)}

ChangePct(tr, q, symbol) ==
    LET last == tr[LatestRow(tr, symbol)].entry
    IN  Round2(q[symbol] - last, last)

AveragingFrame_cap_included(tr, q, cap) ==
    {s \in RowSymbols(tr) :
        /\ q[s] # NoQuote
        /\ ChangePct(tr, q, s) <= averaging_pct
        /\ current_averaging_count(tr, s) <= cap}

(* the frame after the ChangePct and AvgCount filters *)
AveragingFrame(tr, q, cap) ==
    {s \in RowSymbols(tr) :
        /\ q[s] # NoQuote
        /\ ChangePct(tr, q, s) <= averaging_pct
        /\ current_averaging_count(tr, s) < cap}

AveragingChoices_least_fallen(tr, q, cap) ==
    {s \in AveragingFrame(tr, q, cap) :
        \A t \in AveragingFrame(tr, q, cap) :
            ChangePct(tr, q, s) >= ChangePct(tr, q, t)}

(* df.iloc[0] after sort_values('ChangePct'): a row of the lowest ChangePct;
   the sort is not stable, so any of several equal rows may come first *)
AveragingChoices(tr, q, cap) ==
    {s \in AveragingFrame(tr, q, cap) :
        \A t \in AveragingFrame(tr, q, cap) :
            ChangePct(tr, q, s) <= ChangePct(tr, q, t)}

initiate_buy_no_return(tr, list, q, pxs, now, c) ==
    LET r == BuyLoop(tr, list, 1, q, pxs, now, c.max_buys_per_day, <<>>)
        choices == AveragingChoices(r.trades, q, c.max_averaging_per_stock)
    IN  IF Rows(r.trades) = {} \/ choices = {}
        THEN {[trades |-> r.trades, bought |-> r.bought, averaged |-> {}]}
        ELSE {[trades   |-> place_new_trade(r.trades, s, q[s],
                                            investment_averaging, now),
               bought   |-> r.bought,
               averaged |-> {s}] : s \in choices}

(* initiate_buy: the outcomes of the pass, one per choice the sort leaves open *)
initiate_buy(tr, list, q, pxs, now, c) ==
    LET r == BuyLoop(tr, list, 1, q, pxs, now, c.max_buys_per_day, <<>>)
        choices == AveragingChoices(tr, q, c.max_averaging_per_stock)
    IN  IF Len(r.bought) > 0
        THEN {[trades |-> r.trades, bought |-> r.bought, averaged |-> {}]}
        ELSE IF Rows(tr) = {} \/ choices = {}
        THEN {[trades |-> tr, bought |-> <<>>, averaged |-> {}]}
        ELSE {[trades   |-> place_new_trade(tr, s, q[s], investment_averaging, now),
               bought   |-> <<>>,
               averaged |-> {s}] : s \in choices}

----------------------------------------------------------------------------
(* Inputs of the model *)

Universe == <<"A", "B">>

(* The strategy properties that are configured per deployment *)
Config(b, s, a) ==
    [max_buys_per_day |-> b, max_sells_per_day |-> s, max_averaging_per_stock |-> a]

(* the defaults of the strategy (1, 1, 3), and two deployments with other limits *)
Configs == {Config(1, 1, 3), Config(2, 1, 2), Config(1, 2, 2)}

(* Ledgers the strategy may find at start-up: empty; a position whose latest
   lot is its dearest; a position of two lots beside trades the passes must
   leave out: another strategy's, one with an exit order placed, one whose
   entry order has not filled *)
OtherTrade == NewTrade("B", "Other", 100, 10, 0)
TargetTrade == [NewTrade("A", Name, 108, 10, 0) EXCEPT !.targetOrder = "order"]
PendingTrade == NewTrade("A", Name, 100, 0, 0)

SeedLedgers ==
    {<<>>,
     <<NewTrade("A", Name, 90, 30, 0 - 1), NewTrade("A", Name, 108, 10, 0)>>,
     <<OtherTrade, NewTrade("A", Name, 100, 10, 0 - 2),
       NewTrade("A", Name, 90, 10, 0 - 1), TargetTrade, PendingTrade>>}

(* Price histories: n rows, all closing at base but the latest *)
Flat(n, base, last) ==
    [fetch |-> "ok",
     rows |-> [i \in 1..n |-> Row(i, IF i = n THEN last ELSE base)]]

(* the same rows, delivered with the latest one first *)
Unsorted(n, base, last) ==
    [fetch |-> "ok",
     rows |-> [i \in 1..n |-> IF i = 1 THEN Row(n, last) ELSE Row(i - 1, base)]]

NoData == [fetch |-> "none", rows |-> <<>>]
FetchError == [fetch |-> "error", rows |-> <<>>]
EmptyFrame == [fetch |-> "ok", rows |-> <<>>]

Deep == Flat(Window, 100, 90)
Shallow == Flat(Window, 100, 95)
Above == Flat(Window, 100, 108)

DayOf(a, b) == [s \in Symbols |-> IF s = "A" THEN a ELSE b]

(* the histories a day of the cycle may fetch *)
DayHists ==
    {DayOf(Above, Above), DayOf(Deep, Above), DayOf(Above, Deep),
     DayOf(Deep, Shallow), DayOf(Shallow, Deep)}

NoHist == [s \in Symbols |-> NoData]

----------------------------------------------------------------------------
(* The decision cycle *)

Init ==
    /\ trades \in SeedLedgers
    /\ cfg \in Configs
    /\ \A s \in Symbols :
           current_averaging_count(trades, s) <= cfg.max_averaging_per_stock
    /\ clock = 0
    /\ pc = "idle"
    /\ cmp = [s \in Symbols |-> NoQuote]
    /\ symbols = Universe
    /\ hist = NoHist
    /\ stock_list = <<>>
    /\ opening = <<>>
    /\ at_buy = <<>>
    /\ positions = <<>>
    /\ sold = <<>>
    /\ bought = <<>>
    /\ averaged = {}
    /\ response = NoResponse
    /\ universe = NoUniverse

(* A trading day begins: the scheduler calls execute_strategy *)
StartCycle ==
    /\ pc = "idle"
    /\ clock < MaxDays
    /\ clock' = clock + 1
    /\ cmp' \in [Symbols -> Prices \cup {NoQuote}]
    /\ pc' = "sell"
    /\ hist' = NoHist
    /\ stock_list' = <<>>
    /\ opening' = trades
    /\ at_buy' = <<>>
    /\ positions' = <<>>
    /\ sold' = <<>>
    /\ bought' = <<>>
    /\ averaged' = {}
    /\ UNCHANGED <<trades, cfg, symbols,
                   response, universe>>

Sell ==
    /\ pc = "sell"
    /\ LET r == initiate_sell(trades, cmp, cfg.max_sells_per_day)
       IN  /\ trades' = r.trades
           /\ sold' = r.sold
    /\ positions' = Positions(trades, cmp)
    /\ pc' = "screen"
    /\ UNCHANGED <<cfg, clock, cmp, symbols, hist, stock_list, opening, at_buy,
                   bought, averaged,
                   response, universe>>

(* a cycle that calls initiate_buy whatever the screening returned *)
Screen_enters_buy_pass ==
    /\ pc = "screen"
    /\ \E h \in DayHists :
        /\ hist' = h
        /\ stock_list' = get_eligible_stocks_for_today(symbols, h)
    /\ pc' = "buy"
    /\ UNCHANGED <<trades, cfg, clock, cmp, symbols, opening, at_buy, positions,
                   sold, bought, averaged,
                   response, universe>>

Screen ==
    /\ pc = "screen"
    /\ \E h \in DayHists :
        /\ hist' = h
        /\ stock_list' = get_eligible_stocks_for_today(symbols, h)
    /\ pc' = IF stock_list' = <<>> THEN "idle" ELSE "buy"
    /\ UNCHANGED <<trades, cfg, clock, cmp, symbols, opening, at_buy, positions,
                   sold, bought, averaged,
                   response, universe>>

Buy ==
    /\ pc = "buy"
    /\ \E pxs \in [Symbols -> Prices] :
        /\ \A s \in Symbols : cmp[s] # NoQuote => pxs[s] = cmp[s]
        /\ \E r \in initiate_buy(trades, stock_list, cmp, pxs, clock, cfg) :
            /\ trades' = r.trades
            /\ bought' = r.bought
            /\ averaged' = r.averaged
    /\ at_buy' = trades
    /\ pc' = "idle"
    /\ UNCHANGED <<cfg, clock, cmp, symbols, hist, stock_list, opening, positions,
                   sold,
                   response, universe>>

Next == StartCycle \/ Sell \/ Screen \/ Buy

Spec == Init /\ [][Next]_vars

----------------------------------------------------------------------------
(* The screening alone, over a universe larger than the top 5 *)

ScreenUniverse == <<"S1", "S2", "S3", "S4", "S5", "S6">>

(* what the fetch of a symbol may deliver: histories below, at and above the
   average, one out of date order, one too short for a 20DMA, an empty
   frame, no frame, an exception *)
Equal == Flat(Window, 100, 100)
Late == Unsorted(Window + 1, 100, 80)
Short == Flat(Window - 1, 100, 90)

FetchOf(k) ==
    IF k % 3 = 1 THEN {Deep, Shallow, Above, NoData}
    ELSE IF k % 3 = 2 THEN {Deep, Late, Equal, Short}
    ELSE {Shallow, Late, FetchError, EmptyFrame}

ScreenInputs ==
    {h \in [Range(ScreenUniverse) -> {Deep, Shallow, Above, NoData, Late, Equal,
                                      Short, FetchError, EmptyFrame}] :
        \A k \in DOMAIN ScreenUniverse : h[ScreenUniverse[k]] \in FetchOf(k)}

ScreenInit ==
    /\ trades = <<>>
    /\ cfg = Config(1, 1, 3)
    /\ clock = 0
    /\ pc = "screen"
    /\ cmp = [s \in Symbols |-> NoQuote]
    /\ symbols = ScreenUniverse
    /\ hist \in ScreenInputs
    /\ stock_list = <<>>
    /\ opening = <<>>
    /\ at_buy = <<>>
    /\ positions = <<>>
    /\ sold = <<>>
    /\ bought = <<>>
    /\ averaged = {}
    /\ response = NoResponse
    /\ universe = NoUniverse

ScreenOnly ==
    /\ pc = "screen"
    /\ stock_list' = get_eligible_stocks_for_today(symbols, hist)
    /\ pc' = "screened"
    /\ UNCHANGED <<trades, cfg, clock, cmp, symbols, hist, opening, at_buy,
                   positions, sold, bought, averaged,
                   response, universe>>

ScreenNext == ScreenOnly

SpecScreen == ScreenInit /\ [][ScreenNext]_vars

----------------------------------------------------------------------------
(* The screener app: a run fetches the index constituents, then screens *)

(* the static default list of get_nifty50_symbols *)
StaticList ==
    <<"RELIANCE.NS", "TCS.NS", "HDFCBANK.NS", "ICICIBANK.NS", "INFY.NS",
      "HINDUNILVR.NS", "BHARTIARTL.NS", "ITC.NS", "SBIN.NS", "LICI.NS",
      "BAJFINANCE.NS", "HCLTECH.NS", "KOTAKBANK.NS", "MARUTI.NS", "LT.NS",
      "ASIANPAINT.NS", "AXISBANK.NS", "SUNPHARMA.NS", "WIPRO.NS", "ULTRACEMCO.NS",
      "NESTLEIND.NS", "BAJAJFINSV.NS", "ADANIENT.NS", "NTPC.NS", "M&M.NS",
      "JSWSTEEL.NS", "TATAMOTORS.NS", "POWERGRID.NS", "TITAN.NS", "TATASTEEL.NS",
      "ADANIPORTS.NS", "COALINDIA.NS", "ONGC.NS", "INDUSINDBK.NS", "HINDALCO.NS",
      "BRITANNIA.NS", "CIPLA.NS", "DRREDDY.NS", "EICHERMOT.NS", "GRASIM.NS",
      "HEROMOTOCO.NS", "BPCL.NS", "DIVISLAB.NS", "BAJAJ-AUTO.NS", "APOLLOHOSP.NS",
      "TECHM.NS", "UPL.NS", "SHREECEM.NS", "HDFCLIFE.NS", "TATACONSUM.NS">>

(* item['symbol'] + ".NS" *)
WithSuffix(s) == IF s = "AAA" THEN "AAA.NS" ELSE "BBB.NS"

Fallback == [value |-> "list", list |-> StaticList]

(* the value a function returns when it ends without a return statement *)
ReturnsNone == [value |-> None, list |-> <<>>]

(* resp.kind "raised": a request raised (timeout, connection error);
   resp.text: "" blank, "html" not JSON, "json array" JSON without .get,
   "json object" JSON whose 'data' is resp.items (absent 'data' is <<>>) *)
get_nifty50_symbols(resp) ==
    IF resp.kind = "raised" THEN Fallback
    ELSE IF resp.status # 200 \/ resp.text = "" THEN Fallback
    ELSE IF resp.text = "html" THEN Fallback
    ELSE IF resp.text = "json array" THEN Fallback
    ELSE IF \E i \in DOMAIN resp.items : ~resp.items[i].has_symbol THEN Fallback
    ELSE LET syms == [i \in DOMAIN resp.items |-> WithSuffix(resp.items[i].symbol)]
         IN  IF syms # <<>> THEN [value |-> "list", list |-> syms]
             ELSE ReturnsNone

(* the app's loop body: its get_historical_data answers None for an empty
   frame or an exception, and a frame of fewer than 20 rows is skipped *)
app_ScreenSymbol(symbol, data) ==
    IF data.fetch # "ok" \/ data.rows = <<>> \/ Len(data.rows) < Window THEN <<>>
    ELSE ScreenSymbol(symbol, data)

RECURSIVE app_ScreenLoop(_, _, _)
app_ScreenLoop(syms, h, k) ==
    IF k > Len(syms) THEN <<>>
    ELSE app_ScreenSymbol(syms[k], h[syms[k]]) \o app_ScreenLoop(syms, h, k + 1)

(* the Symbol column of top_5_df *)
app_get_eligible_stocks_for_today(syms, h) ==
    LET r == SortAsc(app_ScreenLoop(syms, h, 1))
        top == SubSeq(r, 1, Min(TopK, Len(r)))
    IN  [k \in DOMAIN top |-> top[k].symbol]

Item(s) == [has_symbol |-> TRUE, symbol |-> s]
NoSymbolItem == [has_symbol |-> FALSE, symbol |-> ""]

Answer(status, text, items) ==
    [kind |-> "answered", status |-> status, text |-> text, items |-> items]

Responses ==
    {[kind |-> "raised", status |-> 0, text |-> "", items |-> <<>>],
     Answer(503, "html", <<>>), Answer(200, "", <<>>), Answer(200, "html", <<>>),
     Answer(200, "json array", <<>>), Answer(200, "json object", <<>>),
     Answer(200, "json object", <<Item("AAA")>>),
     Answer(200, "json object", <<Item("AAA"), Item("BBB")>>),
     Answer(200, "json object", <<Item("AAA"), NoSymbolItem>>)}

AppSymbols == Range(StaticList) \cup {"AAA.NS", "BBB.NS"}

AppHist(a, b) ==
    [s \in AppSymbols |->
        IF s \in {"RELIANCE.NS", "AAA.NS"} THEN a
        ELSE IF s \in {"TATACONSUM.NS", "BBB.NS"} THEN b
        ELSE Above]

AppHists == {AppHist(a, b) : a, b \in {Deep, Shallow, Short, FetchError}}

AppInit ==
    /\ trades = <<>>
    /\ cfg = Config(1, 1, 3)
    /\ clock = 0
    /\ pc = "run"
    /\ cmp = [s \in Symbols |-> NoQuote]
    /\ symbols = <<>>
    /\ hist \in AppHists
    /\ stock_list = <<>>
    /\ opening = <<>>
    /\ at_buy = <<>>
    /\ positions = <<>>
    /\ sold = <<>>
    /\ bought = <<>>
    /\ averaged = {}
    /\ response \in Responses
    /\ universe = NoUniverse

(* nifty50_symbols = get_nifty50_symbols() *)
FetchUniverse ==
    /\ pc = "run"
    /\ universe' = get_nifty50_symbols(response)
    /\ pc' = "scan"
    /\ UNCHANGED <<trades, cfg, clock, cmp, symbols, hist, stock_list, opening,
                   at_buy, positions, sold, bought, averaged, response>>

(* get_eligible_stocks_for_today(nifty50_symbols, progress_bar): len(symbols)
   raises TypeError when nifty50_symbols is None *)
AppScreen ==
    /\ pc = "scan"
    /\ IF universe.value = None
       THEN /\ pc' = "TypeError"
            /\ UNCHANGED <<symbols, stock_list>>
       ELSE /\ pc' = "screened"
            /\ symbols' = universe.list
            /\ stock_list' = app_get_eligible_stocks_for_today(universe.list, hist)
    /\ UNCHANGED <<trades, cfg, clock, cmp, hist, opening, at_buy, positions,
                   sold, bought, averaged, response, universe>>

AppNext == FetchUniverse \/ AppScreen

SpecApp == AppInit /\ [][AppNext]_vars

----------------------------------------------------------------------------
(* What the properties speak of, stated on the ledger itself *)

SellDone == pc \in {"screen", "buy"}
BuyDone == pc = "idle" /\ stock_list # <<>>

(* the lots of a symbol's position: trades of this strategy that are active,
   have no target order and a complete entry fill of quantity > 0 *)
Lots(tr, s) ==
    {i \in DOMAIN tr :
        /\ tr[i].strategy = Name
        /\ tr[i].tradingSymbol = s
        /\ tr[i].tradeState = "active"
        /\ tr[i].targetOrder = None
        /\ tr[i].entryOrder.orderStatus = "COMPLETE"
        /\ tr[i].entryOrder.filledQty > 0}

AggQty(tr, s) == SumOver([i \in Lots(tr, s) |-> tr[i].filledQty], Lots(tr, s))

AggValue(tr, s) ==
    SumOver([i \in Lots(tr, s) |-> tr[i].entry * tr[i].filledQty], Lots(tr, s))

(* num / den * 100 to two decimals, in hundredths of a percent *)
PctOf(num, den) == (20000 * num + den) \div (2 * den)

(* (price - weightedEntry) / weightedEntry * 100, weightedEntry = value / qty *)
AggPnlPct(tr, s, price) ==
    PctOf(price * AggQty(tr, s) - AggValue(tr, s), AggValue(tr, s))

Qualifiers(tr, q) ==
    {s \in Symbols :
        /\ Lots(tr, s) # {}
        /\ q[s] # NoQuote
        /\ AggPnlPct(tr, s, q[s]) >= target_pct}

(* trades the sell pass took from active to not active *)
SquaredOff ==
    {i \in DOMAIN opening :
        opening[i].tradeState = "active" /\ trades[i].tradeState # "active"}

SoldSymbols == {opening[i].tradingSymbol : i \in SquaredOff}

----------------------------------------------------------------------------
(* C1: the sell pass sells exactly the first max_sells_per_day symbols, by
   descending P&L%, among the symbols whose aggregate P&L% is >= target_pct:
   never a symbol below the target, never more than max_sells_per_day *)
C1_SellSelection ==
    SellDone =>
        LET Q == Qualifiers(opening, cmp)
        IN  /\ SoldSymbols \subseteq Q
            /\ Range(sold) = SoldSymbols
            /\ Cardinality(SoldSymbols) =
                   Min(cfg.max_sells_per_day, Cardinality(Q))
            /\ \A s \in SoldSymbols : \A t \in Q \ SoldSymbols :
                   AggPnlPct(opening, s, cmp[s]) >= AggPnlPct(opening, t, cmp[t])

(* two symbols qualify at 8% and 6%, one sale a day: only the 8% one is sold *)
C1_Witness ==
    /\ SellDone
    /\ cfg.max_sells_per_day = 1
    /\ \E s, t \in Qualifiers(opening, cmp) :
        /\ AggPnlPct(opening, s, cmp[s]) = 800
        /\ AggPnlPct(opening, t, cmp[t]) = 600
        /\ SoldSymbols = {s}

----------------------------------------------------------------------------
(* The buy pass, stated on the ledger itself *)

Held(tr, s) ==
    \E i \in DOMAIN tr :
        /\ tr[i].strategy = Name
        /\ tr[i].tradeState = "active"
        /\ tr[i].tradingSymbol = s

(* the trades the buy pass added to the ledger *)
Added == (Len(at_buy) + 1)..Len(trades)

(* new positions: buys of a symbol not held; averaging buys: of a symbol held *)
NewBuys == {i \in Added : ~Held(at_buy, trades[i].tradingSymbol)}
AveragingBuys == {i \in Added : Held(at_buy, trades[i].tradingSymbol)}

NotHeld(s) == ~Held(at_buy, s)
NotHeldList == SelectSeq(stock_list, NotHeld)

(* completed, fully-filled long entries of this strategy for a symbol *)
EntryCount(tr, s) ==
    Cardinality({i \in DOMAIN tr :
        /\ tr[i].strategy = Name
        /\ tr[i].tradingSymbol = s
        /\ tr[i].direction = "LONG"
        /\ tr[i].entryOrder.orderStatus = "COMPLETE"
        /\ tr[i].entryOrder.filledQty > 0})

(* entry price of the lot with the latest timestamp *)
LastBuyPrice(tr, s) ==
    LET i == CHOOSE k \in Lots(tr, s) : \A j \in Lots(tr, s) :
                 \/ tr[j].createTimestamp < tr[k].createTimestamp
                 \/ tr[j].createTimestamp = tr[k].createTimestamp /\ k <= j
    IN  tr[i].entry

(* percentage change from the last buy price to the current price *)
FallPct(tr, q, s) == PctOf(q[s] - LastBuyPrice(tr, s), LastBuyPrice(tr, s))

Fallen(tr, q) ==
    {s \in Symbols :
        /\ Lots(tr, s) # {}
        /\ q[s] # NoQuote
        /\ FallPct(tr, q, s) <= averaging_pct}

AveragingCandidates(tr, q, cap) == {s \in Fallen(tr, q) : EntryCount(tr, s) < cap}

LedgerKept == SubSeq(trades, 1, Len(at_buy)) = at_buy

(* C2: a buy pass that placed a new (first-time) buy placed no averaging buy,
   even when a held symbol satisfies the averaging threshold and cap *)
C2_NoAveragingAfterNewBuy ==
    BuyDone /\ (bought # <<>> \/ NewBuys # {}) =>
        averaged = {} /\ AveragingBuys = {}

C2_Witness ==
    /\ BuyDone
    /\ NewBuys # {}
    /\ AveragingCandidates(at_buy, cmp, cfg.max_averaging_per_stock) # {}
    /\ AveragingBuys = {}

(* C3: a symbol whose count of completed long entries has reached
   max_averaging_per_stock receives no averaging buy, however far it fell *)
C3_CapExcludes ==
    BuyDone =>
        /\ \A i \in AveragingBuys :
               EntryCount(at_buy, trades[i].tradingSymbol)
                   < cfg.max_averaging_per_stock
        /\ \A s \in averaged :
               EntryCount(at_buy, s) < cfg.max_averaging_per_stock

C3_Witness ==
    /\ BuyDone
    /\ bought = <<>>
    /\ \E s \in Fallen(at_buy, cmp) :
        /\ EntryCount(at_buy, s) >= cfg.max_averaging_per_stock
        /\ FallPct(at_buy, cmp, s) <= 0 - 1500
        /\ \A i \in Added : trades[i].tradingSymbol # s

(* C4: Step 1 buys exactly the first min(max_buys_per_day, n) symbols of the
   screened list, in its order, that no active trade of this strategy holds *)
C4_NewBuys ==
    BuyDone =>
        /\ bought = SubSeq(NotHeldList, 1,
                           Min(cfg.max_buys_per_day, Len(NotHeldList)))
        /\ LedgerKept
        /\ Cardinality(NewBuys) = Len(bought)
        /\ \A k \in DOMAIN bought :
               /\ Len(at_buy) + k \in NewBuys
               /\ trades[Len(at_buy) + k].tradingSymbol = bought[k]

C4_Witness ==
    /\ BuyDone
    /\ Len(stock_list) = 2
    /\ Held(at_buy, stock_list[1])
    /\ \E i \in DOMAIN at_buy :
           at_buy[i].tradingSymbol = stock_list[2] /\ at_buy[i].strategy # Name
    /\ bought = <<stock_list[2]>>

(* C5: when Step 2 runs it places exactly one averaging buy, for a symbol of
   the most negative change among the held symbols that fell by averaging_pct
   or more and are below the cap; with no such symbol it places nothing *)
C5_AveragingChoice ==
    BuyDone /\ NewBuys = {} =>
        LET C == AveragingCandidates(at_buy, cmp, cfg.max_averaging_per_stock)
        IN  /\ LedgerKept
            /\ C = {} => trades = at_buy /\ averaged = {}
            /\ C # {} =>
                 /\ Len(trades) = Len(at_buy) + 1
                 /\ averaged = {trades[Len(trades)].tradingSymbol}
                 /\ \E s \in C :
                      /\ averaged = {s}
                      /\ \A t \in C : FallPct(at_buy, cmp, s) <= FallPct(at_buy, cmp, t)

C5_Witness ==
    /\ BuyDone
    /\ NewBuys = {}
    /\ \E s, t \in AveragingCandidates(at_buy, cmp, cfg.max_averaging_per_stock) :
        /\ FallPct(at_buy, cmp, s) < FallPct(at_buy, cmp, t)
        /\ averaged = {s}
        /\ Cardinality(AveragingBuys) = 1

(* C6: the buy pass runs on the ledger the sell pass left, and a symbol the
   sell pass squared off is no averaging candidate and gets no averaging buy
   in the same cycle *)
C6_SoldNotAveraged ==
    /\ pc = "sell" => at_buy = <<>> /\ bought = <<>> /\ averaged = {}
    /\ pc = "buy" => \A s \in Range(sold) : Lots(trades, s) = {}
    /\ BuyDone =>
           \A s \in Range(sold) :
               /\ s \in SoldSymbols
               /\ Lots(at_buy, s) = {}
               /\ s \notin averaged
               /\ \A i \in AveragingBuys : trades[i].tradingSymbol # s

(* Step 2 ran, and a symbol sold in this cycle had fallen enough from its last
   buy price, below the cap, to be averaged had it not been sold *)
C6_Witness ==
    /\ BuyDone
    /\ NewBuys = {}
    /\ \E s \in Range(sold) :
        /\ s \in AveragingCandidates(opening, cmp, cfg.max_averaging_per_stock)
        /\ s \notin averaged

(* C7: the sell pass values a symbol at the quantity-weighted mean entry of
   exactly its lots (active, no target order, complete fill of quantity > 0,
   this strategy) and at P&L% = (price - entry) / entry * 100 *)
C7_WeightedEntry ==
    SellDone =>
        /\ DOMAIN positions =
               {s \in Symbols : Lots(opening, s) # {} /\ cmp[s] # NoQuote}
        /\ \A s \in DOMAIN positions :
               /\ positions[s].total_qty = AggQty(opening, s)
               /\ positions[s].entry_value = AggValue(opening, s)
               /\ positions[s].pnl_pct = AggPnlPct(opening, s, cmp[s])
               /\ positions[s].pnl_pct >= target_pct <=> s \in Qualifiers(opening, cmp)

(* fills {(100,10),(90,10)} valued at 95; entry 100 at price 106 is 6.00%, sold *)
C7_Witness ==
    /\ SellDone
    /\ \E s, t \in DOMAIN positions :
        /\ {<<opening[i].entry, opening[i].filledQty>> : i \in Lots(opening, s)}
               = {<<100, 10>>, <<90, 10>>}
        /\ Cardinality(Lots(opening, s)) = 2
        /\ positions[s].entry_value = 95 * positions[s].total_qty
        /\ positions[t].entry_value = 100 * positions[t].total_qty
        /\ cmp[t] = 106
        /\ positions[t].pnl_pct = 600
        /\ t \in SoldSymbols

(* C9 as claimed: after the sell pass no active trade of this strategy is left
   for a selected symbol, and no trade of another symbol is squared off *)
C9_NoActiveTradeLeft ==
    SellDone =>
        /\ \A s \in Range(sold) : ~Held(trades, s)
        /\ \A i \in SquaredOff : opening[i].tradingSymbol \in Range(sold)

(* C9, amended: the sell pass squares off exactly the lots of the selected
   symbols, all of them, and leaves every other trade as it was *)
C9_AllLotsExit ==
    SellDone =>
        /\ Len(trades) = Len(opening)
        /\ \A s \in Range(sold) : Lots(trades, s) = {}
        /\ SquaredOff = UNION {Lots(opening, s) : s \in Range(sold)}
        /\ \A i \in DOMAIN opening :
               trades[i] = IF i \in SquaredOff
                           THEN [opening[i] EXCEPT !.tradeState = "closed"]
                           ELSE opening[i]

(* a symbol of two lots is sold while a trade of it with a target order and
   one with an unfilled entry stay active *)
C9_Witness ==
    /\ SellDone
    /\ \E s \in Range(sold) :
        /\ Cardinality(Lots(opening, s)) = 2
        /\ Lots(opening, s) \subseteq SquaredOff
        /\ \E i, j \in DOMAIN trades :
            /\ trades[i].tradingSymbol = s /\ trades[j].tradingSymbol = s
            /\ trades[i].tradeState = "active" /\ trades[j].tradeState = "active"
            /\ trades[i].targetOrder # None
            /\ trades[j].entryOrder.orderStatus # "COMPLETE"

(* C10 as claimed: the count of completed, fully-filled long entries of this
   strategy for a symbol never exceeds max_averaging_per_stock *)
C10_EntryCountCapped ==
    \A s \in Symbols : EntryCount(trades, s) <= cfg.max_averaging_per_stock

----------------------------------------------------------------------------
(* The screening, stated on the histories themselves *)

Screened == pc = "screened"

Fetched(s) == hist[s].fetch = "ok" /\ hist[s].rows # <<>>

LatestRowOf(s) ==
    CHOOSE r \in Range(hist[s].rows) :
        \A r2 \in Range(hist[s].rows) : r2.date <= r.date

(* the rows of the 20 latest dates *)
LastWindow(s) ==
    {r \in Range(hist[s].rows) :
        Cardinality({r2 \in Range(hist[s].rows) : r2.date > r.date}) < Window}

HasDMA(s) == Fetched(s) /\ Cardinality(LastWindow(s)) = Window

(* latest20DMA * Window *)
DMASum(s) == SumOver([r \in LastWindow(s) |-> r.close], LastWindow(s))

BelowDMA(s) == HasDMA(s) /\ LatestRowOf(s).close * Window < DMASum(s)

ScreenEligible == {s \in Range(symbols) : BelowDMA(s)}

(* deviation of a is at most that of b: close_a / dma_a <= close_b / dma_b *)
DevAtMost(a, b) ==
    LatestRowOf(a).close * DMASum(b) <= LatestRowOf(b).close * DMASum(a)

(* C8: the screening result is the first K = 5 symbols, by ascending
   deviation, of those with a valid 20DMA and latestClose < latest20DMA *)
C8_ScreenTopK ==
    Screened =>
        /\ Len(stock_list) = Min(TopK, Cardinality(ScreenEligible))
        /\ Len(stock_list) <= TopK
        /\ Range(stock_list) \subseteq ScreenEligible
        /\ Cardinality(Range(stock_list)) = Len(stock_list)
        /\ \A i, j \in DOMAIN stock_list :
               i < j => DevAtMost(stock_list[i], stock_list[j])
        /\ \A s \in Range(stock_list) :
               \A t \in ScreenEligible \ Range(stock_list) : DevAtMost(s, t)

(* six symbols are below their average, at different deviations: five are
   returned, the farthest below first *)
C8_Witness ==
    /\ Screened
    /\ Cardinality(ScreenEligible) > TopK
    /\ Len(stock_list) = TopK
    /\ ~DevAtMost(stock_list[TopK], stock_list[1])
    /\ \E t \in ScreenEligible \ Range(stock_list) :
           ~DevAtMost(t, stock_list[1])

----------------------------------------------------------------------------
(* The universe fetch of the app, stated on the response itself *)

FetchFailed ==
    \/ response.kind = "raised"
    \/ response.status # 200
    \/ response.text # "json object"
    \/ \A i \in DOMAIN response.items : ~response.items[i].has_symbol

(* C11 as claimed: a failed universe fetch (request error, non-200 or
   non-JSON response, or an empty symbol list) yields the static default list
   of 50 symbols, and the screening always receives a non-empty symbol list *)
C11_FallbackOnFailure ==
    pc = "scan" =>
        /\ universe.value = "list"
        /\ universe.list # <<>>
        /\ FetchFailed => universe.list = StaticList /\ Len(universe.list) = 50

----------------------------------------------------------------------------
(* C12: a symbol whose history is missing, empty, without a valid 20DMA, or
   whose fetch raised, is skipped without ending the loop: the result equals
   that of screening the universe without these symbols, and every symbol
   with a valid 20DMA below which it closed is returned while fewer than K
   such symbols exist *)
C12_FailingSymbolsSkipped ==
    Screened =>
        /\ stock_list =
               get_eligible_stocks_for_today(SelectSeq(symbols, HasDMA), hist)
        /\ Cardinality(ScreenEligible) <= TopK =>
               Range(stock_list) = ScreenEligible
        /\ \A s \in Range(stock_list) : HasDMA(s)

(* the first three symbols and the last fail in the four ways (no frame, too
   short for a 20DMA, a raised fetch, an empty frame); the two between them
   are returned *)
C12_Witness ==
    /\ Screened
    /\ symbols = ScreenUniverse
    /\ hist["S1"].fetch = "none"
    /\ hist["S2"].fetch = "ok" /\ Len(hist["S2"].rows) = Window - 1
    /\ hist["S3"].fetch = "error"
    /\ hist["S6"].fetch = "ok" /\ hist["S6"].rows = <<>>
    /\ BelowDMA("S4") /\ BelowDMA("S5")
    /\ Range(stock_list) = {"S4", "S5"}

----------------------------------------------------------------------------
(* a cycle that ended with an empty screening result *)
EndedUnscreened == pc = "idle" /\ clock > 0 /\ stock_list = <<>>

(* C13: when the screening returns no symbol the cycle ends after the sell
   pass: the ledger gains no trade, neither a new buy nor an averaging buy,
   and differs from the opening ledger only by what the sell pass closed *)
C13_NoBuyWithoutEligible ==
    EndedUnscreened =>
        /\ bought = <<>> /\ averaged = {}
        /\ Len(trades) = Len(opening)
        /\ \A i \in DOMAIN trades : trades[i].createTimestamp # clock
        /\ \A i \in DOMAIN opening :
               trades[i] = opening[i]
                   \/ trades[i] = [opening[i] EXCEPT !.tradeState = "closed"]

(* the screening returned nothing while a held symbol, below the cap, stood
   5% or more under its last buy price: it was not averaged *)
C13_Witness ==
    /\ EndedUnscreened
    /\ \E s \in AveragingCandidates(trades, cmp, cfg.max_averaging_per_stock) :
        /\ Held(trades, s)
        /\ FallPct(trades, cmp, s) <= averaging_pct
        /\ EntryCount(trades, s) < cfg.max_averaging_per_stock
        /\ Lots(trades, s) = Lots(opening, s)

====
